---- MODULE Spec2Model ----
(***************************************************************************)
(* Model of zip_unicode/time_utils.py: the extra-field timestamp parser    *)
(* (parse_extra_fields), the resolver/applier (set_file_time) and the      *)
(* Windows creation-time setter (set_creation_time_windows).               *)
(*                                                                         *)
(* Buffers are sequences of bytes.  Offsets are 0-based as in the source;  *)
(* byte k of a buffer is buf[k+1].  Python integers are unbounded, so the  *)
(* 64-bit quantities are kept as little-endian base-256 digit sequences    *)
(* ("limbs"), which is also their wire form.  A Python number (int, or the *)
(* float produced by a true division by 10,000,000) is the record          *)
(*     [neg, q, r]   standing for   (+/-) (q + r / 10,000,000)             *)
(* with q a limb sequence of length 8 and r in 0..9,999,999.  The quotient *)
(* is kept exactly; the rounding of the quotient to a double is not        *)
(* modelled.                                                               *)
(***************************************************************************)
EXTENDS Integers, Sequences, FiniteSets, TLC

\* ------------------------------------------------------------------ bounds
MaxRecs == 2
MaxCutRecs == 2
MaxRaw == 5
MaxFileRecs == 2

\* --------------------------------------------------------------- constants
NTFS_ID == 10
EXTTS_ID == 21589
NTFS_TAG1 == 1
NTFS_MIN_PAYLOAD == 32
FILETIME_BLOCK == 24
HUNDREDS_OF_NANOSECONDS == 10000000

\* ------------------------------------------------------ limb arithmetic
Limbs == 8
Zeros(n) == [i \in 1..n |-> 0]
Min(a, b) == IF a < b THEN a ELSE b

\* Little-endian limbs of a small natural n < 2^31.
Lit(n) == [i \in 1..Limbs |-> IF i = 1 THEN n % 256
                              ELSE IF i = 2 THEN (n \div 256) % 256
                              ELSE IF i = 3 THEN (n \div 65536) % 256
                              ELSE IF i = 4 THEN (n \div 16777216) % 256
                              ELSE 0]

RECURSIVE MulAddFrom(_, _, _, _)
MulAddFrom(a, k, carry, i) ==
  IF i > Len(a) THEN <<>>
  ELSE LET t == a[i] * k + carry
       IN <<t % 256>> \o MulAddFrom(a, k, t \div 256, i + 1)

\* a * k + c  (mod 256^Len(a)), for k, c <= 10^6
BigMulAdd(a, k, c) == MulAddFrom(a, k, c, 1)

RECURSIVE FromDecimalAcc(_, _, _)
FromDecimalAcc(ds, i, acc) ==
  IF i > Len(ds) THEN acc
  ELSE FromDecimalAcc(ds, i + 1, BigMulAdd(acc, 10, ds[i]))

\* The natural number written with the decimal digits ds.
FromDecimal(ds) == FromDecimalAcc(ds, 1, Zeros(Limbs))

RECURSIVE AddFrom(_, _, _, _)
AddFrom(a, b, carry, i) ==
  IF i > Len(a) THEN <<>>
  ELSE LET t == a[i] + b[i] + carry
       IN <<t % 256>> \o AddFrom(a, b, t \div 256, i + 1)

BigAdd(a, b) == AddFrom(a, b, 0, 1)

RECURSIVE SubFrom(_, _, _, _)
SubFrom(a, b, borrow, i) ==
  IF i > Len(a) THEN <<>>
  ELSE LET t == a[i] - b[i] - borrow
       IN <<(t + 256) % 256>> \o SubFrom(a, b, IF t < 0 THEN 1 ELSE 0, i + 1)

\* a - b for a >= b
BigSub(a, b) == SubFrom(a, b, 0, 1)

RECURSIVE LessFrom(_, _, _)
LessFrom(a, b, i) ==
  IF i = 0 THEN FALSE
  ELSE IF a[i] # b[i] THEN a[i] < b[i]
  ELSE LessFrom(a, b, i - 1)

BigLess(a, b) == LessFrom(a, b, Len(a))

\* j-th hexadecimal digit of a, j = 1 the least significant
Nibble(a, j) == IF j % 2 = 1 THEN a[(j + 1) \div 2] % 16 ELSE a[j \div 2] \div 16

RECURSIVE DivFrom(_, _, _, _)
DivFrom(a, d, j, rem) ==
  IF j = 0 THEN [q |-> <<>>, r |-> rem]
  ELSE LET t == rem * 16 + Nibble(a, j)
           rest == DivFrom(a, d, j - 1, t % d)
       IN [q |-> rest.q \o <<t \div d>>, r |-> rest.r]

\* quotient (limbs) and remainder of a by d, for d <= 10^7
BigDivMod(a, d) ==
  LET x == DivFrom(a, d, 2 * Len(a), 0)
  IN [q |-> [i \in 1..Len(a) |-> x.q[2 * i - 1] + 16 * x.q[2 * i]], r |-> x.r]

\* 116444736000000000: 100ns ticks between 1601-01-01 and 1970-01-01
EPOCH_AS_FILETIME == FromDecimal(<<1,1,6,4,4,4,7,3,6,0,0,0,0,0,0,0,0,0>>)

\* ------------------------------------------------------- python numbers
Num(neg, q, r) == [neg |-> neg, q |-> q, r |-> r]
Sec(n) == Num(FALSE, Lit(n), 0)

\* ------------------------------------------------------ struct.unpack_from
\* struct.unpack_from(fmt, buf, off) raises struct.error unless the n bytes
\* of the format lie inside the buffer.
CanUnpack(buf, off, n) == off + n <= Len(buf)

\* '<H'
UnpackH(buf, off) == buf[off + 1] + 256 * buf[off + 2]

\* '<Q': unsigned 64-bit, as limbs
UnpackQ(buf, off) == [i \in 1..Limbs |-> buf[off + i]]

\* '<I': unsigned 32-bit (a non-negative python int)
UnpackI(buf, off) ==
  Num(FALSE, [i \in 1..Limbs |-> IF i <= 4 THEN buf[off + i] ELSE 0], 0)

\* extra_bytes[a:b]: a python slice clamps at the end of the buffer
Slice(buf, a, b) == SubSeq(buf, a + 1, Min(b, Len(buf)))

\* (ticks - EPOCH_AS_FILETIME) / 10_000_000, python true division
FiletimeToUnix(ticks) ==
  LET neg == BigLess(ticks, EPOCH_AS_FILETIME)
      mag == IF neg THEN BigSub(EPOCH_AS_FILETIME, ticks)
             ELSE BigSub(ticks, EPOCH_AS_FILETIME)
      dm == BigDivMod(mag, HUNDREDS_OF_NANOSECONDS)
  IN Num(neg, dm.q, dm.r)

\* ------------------------------------------------------ parse_extra_fields
Fields == {"mtime", "atime", "ctime"}

\* the empty dict
EmptyTs == [k \in {} |-> Sec(0)]

\* timestamps[k] = v
Put_keepfirst(ts, k, v) ==
  [x \in (DOMAIN ts) \cup {k} |-> IF x \in DOMAIN ts THEN ts[x] ELSE v]

Put(ts, k, v) == [x \in (DOMAIN ts) \cup {k} |-> IF x = k THEN v ELSE ts[x]]

\* State of one run of the parser: the dict, the walk offset, the warnings
\* logged (header ids), every read performed, and whether a read raised.
\* A read is [buf, base, off, len, size]: len bytes at off of a buffer of
\* size bytes; buf is "extra" for the blob and "data" for the payload slice
\* that starts at offset base of the blob.
ParseInit == [ts |-> EmptyTs, offset |-> 0, warnings |-> <<>>, reads |-> {},
              raised |-> FALSE]

Read(st, buf, base, off, len, size) ==
  [st EXCEPT !.reads = @ \cup {[buf |-> buf, base |-> base, off |-> off,
                                len |-> len, size |-> size]}]

Raise(st) == [st EXCEPT !.raised = TRUE]

\* line 21: if offset + 4 > len(extra_bytes): break
HeaderFits_off(buf, offset) == offset + 2 <= Len(buf)

HeaderFits(buf, offset) == offset + 4 <= Len(buf)

\* line 27: if offset + data_size > len(extra_bytes): break
PayloadFits_none(buf, offset, data_size) == TRUE

PayloadFits(buf, offset, data_size) == offset + data_size <= Len(buf)

\* line 36
NtfsMinimal(data) == Len(data) >= NTFS_MIN_PAYLOAD

\* line 40: if tag1_offset + 4 > len(data): break
SubHeaderFits(data, tag1_offset) == tag1_offset + 4 <= Len(data)

\* line 46
FiletimeValid(data, size1, tag1_offset) ==
  size1 >= FILETIME_BLOCK /\ tag1_offset + FILETIME_BLOCK <= Len(data)

\* lines 65, 70, 75: current_offset + 4 <= len(data)
FieldFits(data, current_offset) == current_offset + 4 <= Len(data)

Bit(flags, mask) == (flags \div mask) % 2 = 1

\* lines 47-54
NtfsStore_swapped(data, base, off, st) ==
  IF ~CanUnpack(data, off, FILETIME_BLOCK)
  THEN Raise(Read(st, "data", base, off, FILETIME_BLOCK, Len(data)))
  ELSE LET mtime == UnpackQ(data, off)
           atime == UnpackQ(data, off + 16)
           ctime == UnpackQ(data, off + 8)
           t1 == Put(st.ts, "ctime", FiletimeToUnix(ctime))
           t2 == Put(t1, "mtime", FiletimeToUnix(mtime))
           t3 == Put(t2, "atime", FiletimeToUnix(atime))
       IN [Read(st, "data", base, off, FILETIME_BLOCK, Len(data)) EXCEPT !.ts = t3]

NtfsStore(data, base, off, st) ==
  IF ~CanUnpack(data, off, FILETIME_BLOCK)
  THEN Raise(Read(st, "data", base, off, FILETIME_BLOCK, Len(data)))
  ELSE LET mtime == UnpackQ(data, off)
           atime == UnpackQ(data, off + 8)
           ctime == UnpackQ(data, off + 16)
           t1 == Put(st.ts, "ctime", FiletimeToUnix(ctime))
           t2 == Put(t1, "mtime", FiletimeToUnix(mtime))
           t3 == Put(t2, "atime", FiletimeToUnix(atime))
       IN [Read(st, "data", base, off, FILETIME_BLOCK, Len(data)) EXCEPT !.ts = t3]

\* lines 39-56: the sub-attribute walk of one NTFS payload
RECURSIVE NtfsWalk(_, _, _, _)
NtfsWalk(data, base, tag1_offset, st) ==
  IF ~(tag1_offset < Len(data)) THEN st
  ELSE IF ~SubHeaderFits(data, tag1_offset) THEN st
  ELSE IF ~CanUnpack(data, tag1_offset, 4)
       THEN Raise(Read(st, "data", base, tag1_offset, 4, Len(data)))
  ELSE LET tag1 == UnpackH(data, tag1_offset)
           size1 == UnpackH(data, tag1_offset + 2)
           off == tag1_offset + 4
           st1 == Read(st, "data", base, tag1_offset, 4, Len(data))
       IN IF tag1 = NTFS_TAG1
          THEN IF FiletimeValid(data, size1, off)
               THEN NtfsStore(data, base, off, st1)
               ELSE st1
          ELSE NtfsWalk(data, base, off + size1, st1)

\* lines 34-56
NtfsParse(data, base, st) ==
  IF NtfsMinimal(data) THEN NtfsWalk(data, base, 4, st) ELSE st

\* one optional 4-byte field of the extended-timestamp payload
\* (lines 65-67, 70-72, 75-77); x = [st, cur]
ExtField(data, base, x, flags, mask, key) ==
  IF x.st.raised THEN x
  ELSE IF Bit(flags, mask) /\ FieldFits(data, x.cur)
  THEN IF ~CanUnpack(data, x.cur, 4)
       THEN [st |-> Raise(Read(x.st, "data", base, x.cur, 4, Len(data))), cur |-> x.cur]
       ELSE [st |-> [Read(x.st, "data", base, x.cur, 4, Len(data))
                       EXCEPT !.ts = Put(@, key, UnpackI(data, x.cur))],
             cur |-> x.cur + 4]
  ELSE x

\* lines 59-77
ExtParse_mac(data, base, st) ==
  IF Len(data) >= 1
  THEN LET flags == data[1]
           x0 == [st |-> Read(st, "data", base, 0, 1, Len(data)), cur |-> 1]
           x1 == ExtField(data, base, x0, flags, 1, "mtime")
           x2 == ExtField(data, base, x1, flags, 2, "atime")
           x3 == ExtField(data, base, x2, flags, 4, "ctime")
       IN x3.st
  ELSE st

ExtParse(data, base, st) ==
  IF Len(data) >= 1
  THEN LET flags == data[1]
           x0 == [st |-> Read(st, "data", base, 0, 1, Len(data)), cur |-> 1]
           x1 == ExtField(data, base, x0, flags, 4, "ctime")
           x2 == ExtField(data, base, x1, flags, 1, "mtime")
           x3 == ExtField(data, base, x2, flags, 2, "atime")
       IN x3.st
  ELSE st

\* lines 34, 59, 79-80: dispatch on the header id
Dispatch_raise(header_id, data, base, st) ==
  IF header_id = NTFS_ID THEN NtfsParse(data, base, st)
  ELSE IF header_id = EXTTS_ID THEN ExtParse(data, base, st)
  ELSE Raise(st)

Dispatch(header_id, data, base, st) ==
  IF header_id = NTFS_ID THEN NtfsParse(data, base, st)
  ELSE IF header_id = EXTTS_ID THEN ExtParse(data, base, st)
  ELSE [st EXCEPT !.warnings = Append(@, header_id)]

\* lines 20-82: the record walk
RECURSIVE ParseLoop(_, _)
ParseLoop(buf, st) ==
  IF st.raised \/ ~(st.offset < Len(buf)) THEN st
  ELSE IF ~HeaderFits(buf, st.offset) THEN st
  ELSE IF ~CanUnpack(buf, st.offset, 4)
       THEN Raise(Read(st, "extra", 0, st.offset, 4, Len(buf)))
  ELSE LET header_id == UnpackH(buf, st.offset)
           data_size == UnpackH(buf, st.offset + 2)
           off1 == st.offset + 4
           sH == [Read(st, "extra", 0, st.offset, 4, Len(buf)) EXCEPT !.offset = off1]
       IN IF ~PayloadFits(buf, off1, data_size) THEN sH
          ELSE LET data == Slice(buf, off1, off1 + data_size)
                   s2 == [Read(sH, "extra", 0, off1, data_size, Len(buf))
                            EXCEPT !.offset = off1 + data_size]
               IN ParseLoop(buf, Dispatch(header_id, data, off1, s2))

parse_extra_fields(extra_bytes) == ParseLoop(extra_bytes, ParseInit)

\* ------------------------------------------------ construction of inputs
\* The buffers given to the parser are built the way tests/test_extra_fields.py
\* builds them: struct.pack of a header and a payload per record.

\* (unix + 11644473600) * 10000000 computed on integers, for (+/-)(q + r/10^7)
FiletimeOf(t) ==
  LET mag == BigAdd(BigMulAdd(BigMulAdd(t.q, 10000, 0), 1000, 0), Lit(t.r))
  IN IF t.neg THEN BigSub(EPOCH_AS_FILETIME, mag) ELSE BigAdd(EPOCH_AS_FILETIME, mag)

\* struct.pack('<H', n)
PackH(n) == <<n % 256, n \div 256>>

\* struct.pack('<I', n) of a value in 0..2^32-1, and the two's-complement
\* form of a negative one
PackI(t) ==
  IF t.neg THEN SubFrom(Zeros(4), SubSeq(t.q, 1, 4), 0, 1) ELSE SubSeq(t.q, 1, 4)

RECURSIVE Concat(_)
Concat(ss) == IF ss = <<>> THEN <<>> ELSE Head(ss) \o Concat(Tail(ss))

\* times used in the inputs
T0 == Sec(1577836800)
T1 == Sec(1577836801)
T2 == Sec(1577836802)
T3 == Sec(946684800)
TFrac == Num(FALSE, Lit(1577836800), 5000000)
TNeg == Num(TRUE, Lit(1), 0)
TOld == Num(TRUE, FromDecimal(<<1,1,6,4,4,4,7,3,6,0,0>>), 0)

\* An NTFS sub-attribute: its tag, its declared size, the three times of
\* its FILETIME block, and the number of data bytes really present (the
\* block cut or zero-padded to that length).
Sub(tag, size, m, a, c, have) ==
  [tag |-> tag, size |-> size, m |-> m, a |-> a, c |-> c, have |-> have]

SubData(s) ==
  LET blk == FiletimeOf(s.m) \o FiletimeOf(s.a) \o FiletimeOf(s.c)
  IN [i \in 1..s.have |-> IF i <= FILETIME_BLOCK THEN blk[i] ELSE 0]

SubBytes(s) == PackH(s.tag) \o PackH(s.size) \o SubData(s)

NtfsPayload(subs) == Zeros(4) \o Concat([i \in 1..Len(subs) |-> SubBytes(subs[i])])

\* An extended-timestamp payload: the flag byte, then the 4-byte values in
\* the order given.
ExtPayload(flags, vals) == <<flags>> \o Concat([i \in 1..Len(vals) |-> PackI(vals[i])])

\* A record as the generator knows it: header id, declared length, payload,
\* and what it was built from.
NtfsRec(subs) ==
  [id |-> NTFS_ID, declared |-> Len(NtfsPayload(subs)), payload |-> NtfsPayload(subs),
   kind |-> "ntfs", subs |-> subs, flags |-> 0, vals |-> <<>>]

ExtRec(flags, vals) ==
  [id |-> EXTTS_ID, declared |-> Len(ExtPayload(flags, vals)),
   payload |-> ExtPayload(flags, vals),
   kind |-> "ext", subs |-> <<>>, flags |-> flags, vals |-> vals]

OtherRec(id, payload) ==
  [id |-> id, declared |-> Len(payload), payload |-> payload,
   kind |-> "other", subs |-> <<>>, flags |-> 0, vals |-> <<>>]

RecBytes(r) == PackH(r.id) \o PackH(r.declared) \o r.payload

\* the values of an extended-timestamp record with the given flags, in the
\* physical order create, modify, access
ExtVals(flags, c, m, a) ==
  (IF Bit(flags, 4) THEN <<c>> ELSE <<>>) \o
  (IF Bit(flags, 1) THEN <<m>> ELSE <<>>) \o
  (IF Bit(flags, 2) THEN <<a>> ELSE <<>>)

Records ==
  << \* 1: the record of test_parse_ntfs_extra
     NtfsRec(<<Sub(1, 24, T1, T2, T0, 24)>>),
     \* 2: another sub-attribute first, then tag 1 (oversized block)
     NtfsRec(<<Sub(2, 4, T0, T0, T0, 4), Sub(1, 26, TFrac, TNeg, TOld, 26)>>),
     \* 3: an undersized tag 1, then a valid tag 1
     NtfsRec(<<Sub(1, 8, T0, T0, T0, 8), Sub(1, 24, T3, T3, T3, 24)>>),
     \* 4: tag 1 declares 24 bytes and 8 remain
     NtfsRec(<<Sub(2, 12, T0, T0, T0, 12), Sub(1, 24, T3, T3, T3, 8)>>),
     \* 5: payload shorter than 32 bytes
     NtfsRec(<<Sub(1, 24, T3, T3, T3, 16)>>),
     \* 6..13: extended timestamp, flags 0..7 (7 is test_parse_extended_timestamp)
     ExtRec(0, ExtVals(0, T0, T1, T2)),
     ExtRec(1, ExtVals(1, T0, T1, T2)),
     ExtRec(2, ExtVals(2, T0, T1, T2)),
     ExtRec(3, ExtVals(3, T0, T1, T2)),
     ExtRec(4, ExtVals(4, T0, T1, T2)),
     ExtRec(5, ExtVals(5, T0, T1, T2)),
     ExtRec(6, ExtVals(6, T0, T1, T2)),
     ExtRec(7, ExtVals(7, T0, T1, T2)),
     \* 14: a creation time one second before 1970 (bytes FF FF FF FF)
     ExtRec(5, <<TNeg, T3>>),
     \* 15, 16: other header ids; 16 carries a whole timestamp record as payload
     OtherRec(30837, <<1, 4, 232, 3, 0, 0>>),
     OtherRec(1, RecBytes(ExtRec(7, <<T3, T3, T3>>))),
     \* 17: an empty record of another id
     OtherRec(28789, <<>>),
     \* 18: extended timestamp, flags 7 and two values only
     ExtRec(7, <<T3, T3>>),
     \* 19: extended timestamp with an empty payload
     [ExtRec(0, <<>>) EXCEPT !.declared = 0, !.payload = <<>>],
     \* 20: a sub-attribute whose size runs past the payload
     NtfsRec(<<Sub(2, 65535, T0, T0, T0, 28)>>),
     \* 21: two bytes left after the last sub-attribute
     NtfsRec(<<Sub(2, 26, T0, T0, T0, 28)>>),
     \* 22: declared payload length larger than the payload
     [ExtRec(7, ExtVals(7, T0, T1, T2)) EXCEPT !.declared = 40]
  >>

NRec == Len(Records)

\* records cut at every byte in the truncation runs
CutRecIds == {1, 2, 4, 11, 13, 15, 18, 20, 21}

\* well-formed timestamp records, and records of other header ids
TsRecIds == {1, 2, 3, 6, 7, 8, 9, 10, 11, 12, 13}
OtherRecIds == {15, 16, 17}

RECURSIVE BufferOf(_)
BufferOf(rs) == IF rs = <<>> THEN <<>> ELSE RecBytes(Records[Head(rs)]) \o BufferOf(Tail(rs))

SeqsUpTo(n, S) == UNION {[1..k -> S] : k \in 0..n}

\* bytes of the raw blobs: 0, 1, 4, and the bytes of the ids 0x000a and 0x5455
RawBytes == {0, 1, 4, 10, 84, 85}

\* ------------------------------------------------------------------ state
VARIABLES
  recs,         \* the records the blob was built from (indices into Records)
  cut,          \* the blob is the first cut bytes of their concatenation
  extra_bytes,  \* the blob
  pc,           \* "call", "returned", "raised"
  result,       \* the parser's state when it ended
  date_time,    \* zip_info.date_time
  utc_offset,   \* the local zone's offset from UTC, in seconds
  os_name,      \* os.name
  fpc,          \* where set_file_time is
  base,         \* dt.timestamp()
  resolved,     \* mtime, atime, ctime after the extra-field overrides
  utime_args,   \* the (atime, mtime) given to os.utime
  creation,     \* the FILETIME given to SetFileTime
  handle,       \* "none", "invalid", "open", "closed"
  native_calls, \* the kernel32 calls made, in order
  set_result,   \* "none", "ok", "zero" (SetFileTime returned 0), "raised"
  exc,          \* the exception raised in the try block, "none" if none
  log,          \* the warnings logged
  propagated    \* an exception left set_file_time

parseVars == <<recs, cut, extra_bytes, pc, result>>

fileVars == <<date_time, utc_offset, os_name, fpc, base, resolved, utime_args,
              creation, handle, native_calls, set_result, exc, log, propagated>>

vars == <<recs, cut, extra_bytes, pc, result, date_time, utc_offset, os_name, fpc,
          base, resolved, utime_args, creation, handle, native_calls, set_result,
          exc, log, propagated>>

NoNum == Num(FALSE, <<>>, 0)

\* set_file_time is not running
FileIdle ==
  /\ date_time = <<>>
  /\ utc_offset = 0
  /\ os_name = "posix"
  /\ fpc = "idle"
  /\ base = NoNum
  /\ resolved = EmptyTs
  /\ utime_args = <<>>
  /\ creation = <<>>
  /\ handle = "none"
  /\ native_calls = <<>>
  /\ set_result = "none"
  /\ exc = "none"
  /\ log = <<>>
  /\ propagated = FALSE

Init ==
  /\ recs \in SeqsUpTo(MaxRecs, 1..NRec)
  /\ cut = Len(BufferOf(recs))
  /\ extra_bytes = BufferOf(recs)
  /\ pc = "call"
  /\ result = ParseInit
  /\ FileIdle

\* The blob is a cut concatenation of records, or any short byte string
\* over RawBytes (recs is then empty and cut is 0).
InitCut ==
  /\ \/ /\ recs \in SeqsUpTo(MaxCutRecs, CutRecIds)
        /\ cut \in 0..Len(BufferOf(recs))
        /\ extra_bytes = SubSeq(BufferOf(recs), 1, cut)
     \/ /\ recs = <<>>
        /\ cut = 0
        /\ extra_bytes \in SeqsUpTo(MaxRaw, RawBytes) \ {<<>>}
  /\ pc = "call"
  /\ result = ParseInit
  /\ FileIdle

\* timestamps = parse_extra_fields(extra_bytes)
ParseCall ==
  /\ pc = "call"
  /\ result' = parse_extra_fields(extra_bytes)
  /\ pc' = IF result'.raised THEN "raised" ELSE "returned"
  /\ UNCHANGED <<recs, cut, extra_bytes>>
  /\ UNCHANGED fileVars

Next == ParseCall

Spec == Init /\ [][Next]_vars

SpecCut == InitCut /\ [][Next]_vars

InitSkip ==
  /\ recs \in {<<a, u, b>> : a \in TsRecIds, u \in OtherRecIds, b \in TsRecIds}
  /\ cut = Len(BufferOf(recs))
  /\ extra_bytes = BufferOf(recs)
  /\ pc = "call"
  /\ result = ParseInit
  /\ FileIdle

SpecSkip == InitSkip /\ [][Next]_vars

\* ------------------------------------------------------------ set_file_time
PATH == "path"

\* datetime(*zip_info.date_time) raises ValueError outside these ranges
IsLeap(y) == (y % 4 = 0 /\ y % 100 # 0) \/ y % 400 = 0

DaysInMonth(y, m) ==
  IF m = 2 THEN (IF IsLeap(y) THEN 29 ELSE 28)
  ELSE IF m \in {4, 6, 9, 11} THEN 30 ELSE 31

ValidDate(d) ==
  /\ d[1] \in 1..9999
  /\ d[2] \in 1..12
  /\ d[3] >= 1 /\ d[3] <= DaysInMonth(d[1], d[2])
  /\ d[4] \in 0..23
  /\ d[5] \in 0..59
  /\ d[6] \in 0..59

LeapsBefore(y) == (y - 1) \div 4 - (y - 1) \div 100 + (y - 1) \div 400

RECURSIVE DaysBeforeMonth(_, _)
DaysBeforeMonth(y, m) ==
  IF m = 1 THEN 0 ELSE DaysBeforeMonth(y, m - 1) + DaysInMonth(y, m - 1)

\* days from 1970-01-01 to the date
DaysFromEpoch(d) ==
  365 * (d[1] - 1970) + LeapsBefore(d[1]) - LeapsBefore(1970)
  + DaysBeforeMonth(d[1], d[2]) + d[3] - 1

\* datetime(...).timestamp() of a naive datetime: the fields are local time
Timestamp(d, offset) ==
  Sec(DaysFromEpoch(d) * 86400 + d[4] * 3600 + d[5] * 60 + d[6] - offset)

\* lines 131-141: the legacy value, overridden by each key the parser gave
Resolve_crossed(b, extra_ts) ==
  [f \in Fields |->
     IF f = "mtime" THEN (IF "atime" \in DOMAIN extra_ts THEN extra_ts["atime"] ELSE b)
     ELSE IF f = "atime" THEN (IF "mtime" \in DOMAIN extra_ts THEN extra_ts["mtime"] ELSE b)
     ELSE (IF "ctime" \in DOMAIN extra_ts THEN extra_ts["ctime"] ELSE b)]

Resolve(b, extra_ts) ==
  [f \in Fields |->
     IF f = "mtime" THEN (IF "mtime" \in DOMAIN extra_ts THEN extra_ts["mtime"] ELSE b)
     ELSE IF f = "atime" THEN (IF "atime" \in DOMAIN extra_ts THEN extra_ts["atime"] ELSE b)
     ELSE (IF "ctime" \in DOMAIN extra_ts THEN extra_ts["ctime"] ELSE b)]

\* line 95: int(timestamp * HUNDREDS_OF_NANOSECONDS + EPOCH_AS_FILETIME)
\* (the float rounding of the sum is not modelled)
WinFiletime(timestamp) ==
  LET mag == BigAdd(BigMulAdd(BigMulAdd(timestamp.q, 10000, 0), 1000, 0), Lit(timestamp.r))
  IN IF timestamp.neg THEN BigSub(EPOCH_AS_FILETIME, mag)
     ELSE BigAdd(EPOCH_AS_FILETIME, mag)

\* "except Exception" catches every exception class raised in the try block
ExceptionClasses == {"ValueError", "OSError", "struct.error", "IndexError"}

Warning(msg, path, cause, id) == [msg |-> msg, path |-> path, cause |-> cause, id |-> id]

UnknownIdWarnings(ids) ==
  [i \in 1..Len(ids) |-> Warning("Unknown extra field header ID", "", "", ids[i])]

DateTimes ==
  { <<1980, 1, 1, 0, 0, 0>>, <<2020, 1, 1, 0, 0, 0>>, <<2020, 2, 29, 23, 59, 58>>,
    <<2037, 12, 31, 23, 59, 58>>, <<2021, 2, 29, 0, 0, 0>>, <<1980, 0, 0, 0, 0, 0>>,
    <<2020, 1, 1, 0, 0, 60>> }

UtcOffsets == {0, 3600}

FileRecIds == {1, 4, 7, 11, 13, 15}

InitFile ==
  /\ recs \in SeqsUpTo(MaxFileRecs, FileRecIds)
  /\ cut = Len(BufferOf(recs))
  /\ extra_bytes = BufferOf(recs)
  /\ pc = "call"
  /\ result = ParseInit
  /\ date_time \in DateTimes
  /\ utc_offset \in UtcOffsets
  /\ os_name \in {"nt", "posix"}
  /\ fpc = "start"
  /\ base = NoNum
  /\ resolved = EmptyTs
  /\ utime_args = <<>>
  /\ creation = <<>>
  /\ handle = "none"
  /\ native_calls = <<>>
  /\ set_result = "none"
  /\ exc = "none"
  /\ log = <<>>
  /\ propagated = FALSE

\* lines 130-131: dt = datetime(*zip_info.date_time); dt.timestamp()
FtLegacy ==
  /\ fpc = "start"
  /\ IF ValidDate(date_time)
     THEN /\ base' = Timestamp(date_time, utc_offset)
          /\ fpc' = "parse"
          /\ exc' = exc
     ELSE /\ base' = base
          /\ fpc' = "except"
          /\ exc' = "ValueError"
  /\ UNCHANGED <<parseVars, date_time, utc_offset, os_name, resolved, utime_args,
                 creation, handle, native_calls, set_result, log, propagated>>

\* lines 134-141: if zip_info.extra: parse and override
FtParse ==
  /\ fpc = "parse"
  /\ IF extra_bytes # <<>>
     THEN LET r == parse_extra_fields(extra_bytes)
          IN IF r.raised
             THEN /\ exc' = "struct.error"
                  /\ fpc' = "except"
                  /\ UNCHANGED <<resolved, log>>
             ELSE /\ resolved' = Resolve(base, r.ts)
                  /\ log' = log \o UnknownIdWarnings(r.warnings)
                  /\ fpc' = "utime"
                  /\ exc' = exc
     ELSE /\ resolved' = Resolve(base, EmptyTs)
          /\ fpc' = "utime"
          /\ UNCHANGED <<exc, log>>
  /\ UNCHANGED <<parseVars, date_time, utc_offset, os_name, base, utime_args,
                 creation, handle, native_calls, set_result, propagated>>

\* line 143: os.utime(path, (atime, mtime)); it raises OSError when the path
\* has vanished or cannot be written
FtUtime ==
  /\ fpc = "utime"
  /\ \E ok \in BOOLEAN :
       IF ok
       THEN /\ utime_args' = <<resolved["atime"], resolved["mtime"]>>
            /\ fpc' = IF os_name = "nt" THEN "win_convert" ELSE "done"
            /\ exc' = exc
       ELSE /\ utime_args' = utime_args
            /\ fpc' = "except"
            /\ exc' = "OSError"
  /\ UNCHANGED <<parseVars, date_time, utc_offset, os_name, base, resolved,
                 creation, handle, native_calls, set_result, log, propagated>>

\* lines 92-99: the FILETIME of the creation time
WinConvert ==
  /\ fpc = "win_convert"
  /\ creation' = WinFiletime(resolved["ctime"])
  /\ fpc' = "win_open"
  /\ UNCHANGED <<parseVars, date_time, utc_offset, os_name, base, resolved,
                 utime_args, handle, native_calls, set_result, exc, log, propagated>>

\* lines 101-113: CreateFileW; -1 means the file could not be opened
WinCreateFile ==
  /\ fpc = "win_open"
  /\ native_calls' = Append(native_calls, "CreateFileW")
  /\ \E h \in {"open", "invalid"} :
       /\ handle' = h
       /\ fpc' = IF h = "invalid" THEN "done" ELSE "win_set"
  /\ UNCHANGED <<parseVars, date_time, utc_offset, os_name, base, resolved,
                 utime_args, creation, set_result, exc, log, propagated>>

\* lines 115-121, without the finally clause: an exception leaves at once
WinSetFileTime_nofinally ==
  /\ fpc = "win_set"
  /\ native_calls' = Append(native_calls, "SetFileTime")
  /\ \E o \in {"ok", "zero", "raised"} :
       /\ set_result' = o
       /\ exc' = IF o = "raised" THEN "OSError" ELSE exc
       /\ fpc' = IF o = "raised" THEN "except" ELSE "win_close"
  /\ UNCHANGED <<parseVars, date_time, utc_offset, os_name, base, resolved,
                 utime_args, creation, handle, log, propagated>>

\* lines 115-121: SetFileTime inside try; it returns non-zero, returns 0, or
\* the foreign call raises.  The return value is not looked at.
WinSetFileTime ==
  /\ fpc = "win_set"
  /\ native_calls' = Append(native_calls, "SetFileTime")
  /\ \E o \in {"ok", "zero", "raised"} :
       /\ set_result' = o
       /\ exc' = IF o = "raised" THEN "OSError" ELSE exc
  /\ fpc' = "win_close"
  /\ UNCHANGED <<parseVars, date_time, utc_offset, os_name, base, resolved,
                 utime_args, creation, handle, log, propagated>>

\* lines 122-123: finally: CloseHandle(handle); a pending exception goes on
WinCloseHandle ==
  /\ fpc = "win_close"
  /\ native_calls' = Append(native_calls, "CloseHandle")
  /\ handle' = "closed"
  /\ fpc' = IF exc # "none" THEN "except" ELSE "done"
  /\ UNCHANGED <<parseVars, date_time, utc_offset, os_name, base, resolved,
                 utime_args, creation, set_result, exc, log, propagated>>

\* lines 149-150: except Exception as e: logger.warning(...)
FtExcept ==
  /\ fpc = "except"
  /\ IF exc \in ExceptionClasses
     THEN /\ log' = Append(log, Warning("Could not set time for", PATH, exc, 0))
          /\ fpc' = "done"
          /\ propagated' = propagated
     ELSE /\ log' = log
          /\ fpc' = "propagated"
          /\ propagated' = TRUE
  /\ UNCHANGED <<parseVars, date_time, utc_offset, os_name, base, resolved,
                 utime_args, creation, handle, native_calls, set_result, exc>>

NextFile ==
  \/ FtLegacy
  \/ FtParse
  \/ FtUtime
  \/ WinConvert
  \/ WinCreateFile
  \/ WinSetFileTime
  \/ WinCloseHandle
  \/ FtExcept

SpecFile == InitFile /\ [][NextFile]_vars

\* ------------------------------------------------- what the records mean
\* The reference reading of a record, from what it was built from.
RecAt(i) == Records[recs[i]]

RECURSIVE StartOf(_)
StartOf(i) == IF i = 1 THEN 0 ELSE StartOf(i - 1) + Len(RecBytes(RecAt(i - 1)))

EndOf(i) == StartOf(i) + Len(RecBytes(RecAt(i)))

Tag1Subs(subs) == {k \in 1..Len(subs) : subs[k].tag = NTFS_TAG1}

FirstTag1(subs) == CHOOSE k \in Tag1Subs(subs) : \A j \in Tag1Subs(subs) : k <= j

RECURSIVE SubsLen(_, _, _)
SubsLen(subs, from, to) ==
  IF from > to THEN 0 ELSE 4 + subs[from].have + SubsLen(subs, from + 1, to)

\* offset in the payload of the data of sub-attribute k
SubDataOff(subs, k) == 4 + SubsLen(subs, 1, k - 1) + 4

\* the first tag-1 sub-attribute validates: size >= 24 and 24 bytes remain
Tag1Validates(subs) ==
  /\ Tag1Subs(subs) # {}
  /\ LET k == FirstTag1(subs)
     IN /\ subs[k].size >= 24
        /\ SubsLen(subs, k, Len(subs)) - 4 >= 24

NtfsContribution(r) ==
  IF Tag1Validates(r.subs)
  THEN LET s == r.subs[FirstTag1(r.subs)]
       IN [f \in Fields |-> IF f = "mtime" THEN s.m ELSE IF f = "atime" THEN s.a ELSE s.c]
  ELSE EmptyTs

PopCount(flags) ==
  (IF Bit(flags, 1) THEN 1 ELSE 0) + (IF Bit(flags, 2) THEN 1 ELSE 0)
  + (IF Bit(flags, 4) THEN 1 ELSE 0)

FlagOf(f) == IF f = "mtime" THEN 1 ELSE IF f = "atime" THEN 2 ELSE 4

\* position of field f among the values: create, then modify, then access
ExtPos(flags, f) ==
  IF f = "ctime" THEN 1
  ELSE IF f = "mtime" THEN 1 + (IF Bit(flags, 4) THEN 1 ELSE 0)
  ELSE 1 + (IF Bit(flags, 4) THEN 1 ELSE 0) + (IF Bit(flags, 1) THEN 1 ELSE 0)

ExtContribution(r) ==
  [f \in {g \in Fields : Bit(r.flags, FlagOf(g))} |-> r.vals[ExtPos(r.flags, f)]]

Contribution(r) ==
  IF r.kind = "ntfs" THEN NtfsContribution(r)
  ELSE IF r.kind = "ext" THEN ExtContribution(r)
  ELSE EmptyTs

WellFormed(r) ==
  /\ r.declared = Len(r.payload)
  /\ r.kind = "ntfs" => \A k \in 1..Len(r.subs) : r.subs[k].have = r.subs[k].size
  /\ r.kind = "ext" => Len(r.payload) >= 1 /\ Len(r.vals) = PopCount(r.flags)

\* every 4-byte value reads the same signed and unsigned
SignAgree(r) ==
  \A k \in 1..Len(r.vals) : ~r.vals[k].neg /\ r.vals[k].q[4] < 128

AllWellFormed == \A i \in 1..Len(recs) : WellFormed(RecAt(i)) /\ SignAgree(RecAt(i))

\* offset in the blob just past the bytes of field f of record i
FieldEnd(i, f) ==
  LET r == RecAt(i)
  IN StartOf(i) + 4 +
     (IF r.kind = "ext" THEN 1 + 4 * ExtPos(r.flags, f)
      ELSE SubDataOff(r.subs, FirstTag1(r.subs))
           + (IF f = "mtime" THEN 8 ELSE IF f = "atime" THEN 16 ELSE 24))

Returned == pc = "returned"

\* the blob is the first cut bytes of the records' concatenation
Built == extra_bytes = SubSeq(BufferOf(recs), 1, cut)

\* the last of the records in S that supplies field f
Suppliers(S, f) == {i \in S : f \in DOMAIN Contribution(RecAt(i))}

LastOf(S) == CHOOSE i \in S : \A j \in S : j <= i

\* the dict equals the last-writer-wins merge of the records in S
MergedFrom(ts, S) ==
  \A f \in Fields :
    IF Suppliers(S, f) = {} THEN f \notin DOMAIN ts
    ELSE f \in DOMAIN ts /\ ts[f] = Contribution(RecAt(LastOf(Suppliers(S, f))))[f]

\* --------------------------------------------------------------- claims

\* C1: whatever the bytes (cut headers, declared lengths past the end,
\* malformed NTFS or extended-timestamp payloads), the parser does not raise,
\* returns keys among mtime/atime/ctime, and every read it performs lies
\* inside the blob, respectively inside the payload of the current record.
C1_NeverRaisesReadsInBounds ==
  /\ pc # "raised"
  /\ Returned =>
       /\ DOMAIN result.ts \subseteq Fields
       /\ result.offset <= Len(extra_bytes)
       /\ \A rd \in result.reads :
            /\ rd.off >= 0 /\ rd.len >= 0
            /\ rd.off + rd.len <= rd.size
            /\ rd.buf = "extra" => rd.size = Len(extra_bytes)
            /\ rd.buf = "data" => rd.base + rd.size <= Len(extra_bytes)

\* a cut blob: a record header was read whose payload is not all there, after
\* an earlier record gave timestamps
C1_Witness ==
  /\ Returned /\ Built
  /\ cut < Len(BufferOf(recs))
  /\ result.ts # EmptyTs
  /\ result.offset <= Len(extra_bytes)
  /\ \E rd \in result.reads : rd.buf = "extra" /\ rd.off + 4 = result.offset

C3_NtfsFirstTag1Only ==
  (Returned /\ Len(recs) = 1 /\ RecAt(1).kind = "ntfs")
    => /\ result.ts = NtfsContribution(RecAt(1))
       /\ Tag1Subs(RecAt(1).subs) # {} =>
            LET d == SubDataOff(RecAt(1).subs, FirstTag1(RecAt(1).subs))
            IN \A rd \in result.reads :
                 rd.buf = "data" =>
                   \/ rd.off + rd.len <= d
                   \/ Tag1Validates(RecAt(1).subs) /\ rd.off = d /\ rd.len = 24

\* a tag-1 block behind another sub-attribute, with a fractional time, a
\* time before 1970 and the FILETIME zero
C3_Witness ==
  /\ Returned /\ recs = <<2>>
  /\ result.ts = [f \in Fields |-> IF f = "mtime" THEN TFrac
                                    ELSE IF f = "atime" THEN TNeg ELSE TOld]

\* C5 as stated: cutting a well-formed blob at n never raises, gives a subset
\* of the keys of the whole blob, and every field whose bytes lie wholly
\* before n is still there with its value.
C5_FieldsBeforeCutKept ==
  (pc # "call" /\ Built /\ AllWellFormed)
    => /\ Returned
       /\ DOMAIN result.ts \subseteq DOMAIN parse_extra_fields(BufferOf(recs)).ts
       /\ \A f \in Fields :
            LET S == {i \in Suppliers(1..Len(recs), f) : FieldEnd(i, f) <= cut}
            IN S # {} =>
                 /\ f \in DOMAIN result.ts
                 /\ result.ts[f] = Contribution(RecAt(LastOf(S)))[f]

\* C5 amended: cutting a well-formed blob at n never raises, gives a subset
\* of the keys of the whole blob, and gives exactly what the records lying
\* wholly before n (header and declared payload) supply, the last one winning.
C5_WholeRecordsBeforeCutKept ==
  (pc # "call" /\ Built /\ AllWellFormed)
    => /\ Returned
       /\ DOMAIN result.ts \subseteq DOMAIN parse_extra_fields(BufferOf(recs)).ts
       /\ MergedFrom(result.ts, {i \in 1..Len(recs) : EndOf(i) <= cut})

\* the cut falls in the second record after the bytes of one of its fields;
\* the first record's fields are returned, the second's are not
C5_Witness ==
  /\ Returned /\ Built /\ AllWellFormed /\ Len(recs) = 2
  /\ RecAt(1).kind = "ext" /\ RecAt(2).kind = "ntfs"
  /\ cut < EndOf(2) /\ FieldEnd(2, "mtime") <= cut
  /\ DOMAIN result.ts = DOMAIN Contribution(RecAt(1))
  /\ DOMAIN result.ts # {} /\ DOMAIN result.ts # Fields

\* C6 as stated: every 4-byte field of an extended-timestamp record is read
\* as a signed 32-bit value.
C6_SignedDecode ==
  (Returned /\ Len(recs) = 1 /\ RecAt(1).kind = "ext" /\ WellFormed(RecAt(1)))
    => \A f \in Fields :
         Bit(RecAt(1).flags, FlagOf(f)) =>
           /\ f \in DOMAIN result.ts
           /\ result.ts[f] = RecAt(1).vals[ExtPos(RecAt(1).flags, f)]

\* C7: a record of another header id between two timestamp records changes
\* nothing but the log: the result is that of the two records alone.
C7_UnknownSkipped ==
  (pc # "call")
    => /\ Returned
       /\ result.ts = parse_extra_fields(BufferOf(<<recs[1], recs[3]>>)).ts
       /\ result.warnings = <<RecAt(2).id>>
       /\ result.offset = Len(extra_bytes)

\* the skipped record holds a whole timestamp record as its payload
C7_Witness ==
  /\ Returned /\ recs = <<7, 16, 8>>
  /\ DOMAIN result.ts = {"mtime", "atime"}
  /\ result.warnings = <<1>>

\* C10: over several timestamp records, each field has the value of the last
\* record that supplies it; a field only an earlier record supplies is kept.
C10_LastWriterWins ==
  (Returned /\ AllWellFormed) => MergedFrom(result.ts, 1..Len(recs))

\* an NTFS record, then an extended-timestamp record that replaces the
\* modification time only
C10_Witness ==
  /\ Returned /\ recs = <<2, 7>>
  /\ result.ts = [f \in Fields |-> IF f = "mtime" THEN T1
                                    ELSE IF f = "atime" THEN TNeg ELSE TOld]

\* C4: the triple set_file_time resolves is fully set: each field is the
\* parser's value when the parser gave the key and the one legacy value
\* otherwise; with no extra bytes all three are the legacy value, and when
\* the parser gave all three the legacy date plays no part.
C4_ResolvedTriple ==
  (resolved # EmptyTs)
    => LET P == parse_extra_fields(extra_bytes).ts
           legacy == Timestamp(date_time, utc_offset)
       IN /\ DOMAIN resolved = Fields
          /\ \A f \in Fields :
               resolved[f] = IF f \in DOMAIN P THEN P[f] ELSE legacy
          /\ extra_bytes = <<>> => \A f \in Fields : resolved[f] = legacy
          /\ DOMAIN P = Fields => resolved = P
          /\ (date_time = <<2020, 1, 1, 0, 0, 0>> /\ utc_offset = 0 /\ extra_bytes = <<>>)
               => \A f \in Fields : resolved[f] = Sec(1577836800)

\* the parser gave the creation and modification times; the access time is
\* the legacy value, one hour east of UTC
C4_Witness ==
  /\ fpc = "done" /\ recs = <<11>>
  /\ date_time = <<2020, 2, 29, 23, 59, 58>> /\ utc_offset = 3600
  /\ resolved["ctime"] = T0 /\ resolved["mtime"] = T1
  /\ resolved["atime"] = Sec(1583017198)
  /\ utime_args = <<Sec(1583017198), T1>>

CountOf(calls, name) == Cardinality({i \in 1..Len(calls) : calls[i] = name})

\* a step of set_file_time failed
StepFailed == exc # "none" \/ set_result = "zero"

TimeWarnings == {i \in 1..Len(log) : log[i].msg = "Could not set time for"}

\* C8 as stated: set_file_time never lets a failure out; whichever step fails
\* (legacy date, parse, os.utime, the creation-time call), the call ends
\* normally after logging one warning naming the path and the cause.
C8_FailureLoggedNotPropagated ==
  /\ ~propagated /\ fpc # "propagated"
  /\ (fpc = "done" /\ StepFailed)
       => /\ Cardinality(TimeWarnings) = 1
          /\ \A i \in TimeWarnings : log[i].path = PATH /\ log[i].cause # ""

\* C9: in set_creation_time_windows a handle that was obtained is released
\* exactly once on every way out and none is held afterwards; when no handle
\* is obtained neither SetFileTime nor CloseHandle is called and nothing is
\* logged or raised.
C9_HandleReleasedOnce ==
  /\ CountOf(native_calls, "CloseHandle") <= 1
  /\ CountOf(native_calls, "CloseHandle") <= CountOf(native_calls, "SetFileTime")
  /\ handle = "open" => fpc \in {"win_set", "win_close"}
  /\ (fpc \in {"done", "except", "propagated"} /\ handle # "none" /\ handle # "invalid")
       => /\ handle = "closed"
          /\ native_calls = <<"CreateFileW", "SetFileTime", "CloseHandle">>
  /\ handle = "invalid"
       => /\ native_calls = <<"CreateFileW">>
          /\ fpc = "done"
          /\ exc = "none"
          /\ TimeWarnings = {}

\* the native call raised with the handle open, and the handle was closed
\* before the exception reached the handler
C9_Witness ==
  /\ fpc = "except" /\ set_result = "raised" /\ handle = "closed"
  /\ native_calls = <<"CreateFileW", "SetFileTime", "CloseHandle">>

====
